---------------------------- MODULE Spec2Model ----------------------------
(***************************************************************************)
(* Model of covanam/calculator (src/src/main.rs): the lexer                *)
(* (get_first_number, get_token, tokenize) and the recursive-descent       *)
(* evaluator (evaluate_factor, evaluate_term, evaluate_expression,         *)
(* evaluate), driven by one iteration of main's loop on one input line.    *)
(*                                                                         *)
(* A line is a sequence of characters (one-character strings).  The        *)
(* evaluator's native recursion is modelled by an explicit call stack of   *)
(* frames, one action per straight-line piece of each function.            *)
(*                                                                         *)
(* f64 values are modelled as IEEE-754 values without rounding: a finite   *)
(* value is a sign bit and a reduced fraction (so +0 and -0 differ), and   *)
(* the infinities and NaN follow the IEEE rules for + - * /.               *)
(***************************************************************************)
EXTENDS Integers, Sequences, FiniteSets, TLC

\* Longest arbitrary input line, in characters.
MaxLen == 3
\* Largest decimal digit that input lines are built from.
MaxDigit == 2

VARIABLES
    line,     \* main: the String read by read_line
    pos,      \* tokenize: position of `iter` (index of the next char of line)
    tokens,   \* tokenize: the Vec<Token> built so far, then evaluate's input
    phase,    \* "tokenize", "evaluate" or "done"
    perr,     \* tokenize's Err(ParseError), or NoError
    cursor,   \* evaluate: position of the Peekable iterator over tokens
    stack,    \* evaluate: the call stack of the evaluate_* functions
    ret,      \* evaluate: the Result the last returning call handed back
    result    \* evaluate's Result as main receives it, or NoResult

vars == <<line, pos, tokens, phase, perr, cursor, stack, ret, result>>

-----------------------------------------------------------------------------
(* f64 *)

RECURSIVE GCD(_, _)
GCD(a, b) == IF b = 0 THEN a ELSE GCD(b, a % b)

Abs(i) == IF i < 0 THEN -i ELSE i

\* A finite f64: sign bit s, magnitude n/d in lowest terms.
Fin(s, n, d) ==
    IF n = 0 THEN [k |-> "fin", s |-> s, n |-> 0, d |-> 1]
    ELSE [k |-> "fin", s |-> s, n |-> n \div GCD(n, d), d |-> d \div GCD(n, d)]

Inf(s) == [k |-> "inf", s |-> s, n |-> 1, d |-> 0]
NaN == [k |-> "nan", s |-> 0, n |-> 0, d |-> 0]

FromInt(i) == Fin(IF i < 0 THEN 1 ELSE 0, Abs(i), 1)

IsZero(x) == x.k = "fin" /\ x.n = 0
Signed(x) == IF x.s = 1 THEN -x.n ELSE x.n
Xor(a, b) == IF a = b THEN 0 ELSE 1

FNeg(x) == IF x.k = "nan" THEN NaN ELSE [x EXCEPT !.s = 1 - x.s]

FAdd(x, y) ==
    IF x.k = "nan" \/ y.k = "nan" THEN NaN
    ELSE IF x.k = "inf" /\ y.k = "inf" THEN (IF x.s = y.s THEN x ELSE NaN)
    ELSE IF x.k = "inf" THEN x
    ELSE IF y.k = "inf" THEN y
    ELSE LET num == Signed(x) * y.d + Signed(y) * x.d
             den == x.d * y.d
         IN  IF num = 0
             THEN Fin(IF IsZero(x) /\ IsZero(y) /\ x.s = 1 /\ y.s = 1 THEN 1 ELSE 0, 0, 1)
             ELSE Fin(IF num < 0 THEN 1 ELSE 0, Abs(num), den)

FSub(x, y) == FAdd(x, FNeg(y))

FMul(x, y) ==
    IF x.k = "nan" \/ y.k = "nan" THEN NaN
    ELSE IF (x.k = "inf" /\ IsZero(y)) \/ (IsZero(x) /\ y.k = "inf") THEN NaN
    ELSE IF x.k = "inf" \/ y.k = "inf" THEN Inf(Xor(x.s, y.s))
    ELSE Fin(Xor(x.s, y.s), x.n * y.n, x.d * y.d)

FDiv(x, y) ==
    IF x.k = "nan" \/ y.k = "nan" THEN NaN
    ELSE IF x.k = "inf" /\ y.k = "inf" THEN NaN
    ELSE IF IsZero(x) /\ IsZero(y) THEN NaN
    ELSE IF x.k = "inf" \/ IsZero(y) THEN Inf(Xor(x.s, y.s))
    ELSE IF y.k = "inf" THEN Fin(Xor(x.s, y.s), 0, 1)
    ELSE Fin(Xor(x.s, y.s), x.n * y.d, x.d * y.n)

-----------------------------------------------------------------------------
(* Token, ParseError, EvaluateError, Result *)

Number(v) == <<"Number", v>>
LeftBracket == <<"LeftBracket">>
RightBracket == <<"RightBracket">>
Add == <<"Add">>
Sub == <<"Sub">>
Mul == <<"Mul">>
Div == <<"Div">>

InvalidNumber(s) == <<"InvalidNumber", s>>
InvalidCharacter(c) == <<"InvalidCharacter", c>>
NoError == <<"NoError">>

UnexpectedToken(t) == <<"UnexpectedToken", t>>
UnexpectedEnding == <<"UnexpectedEnding">>

Ok(v) == <<"Ok", v>>
Err(e) == <<"Err", e>>
NoResult == <<"NoResult">>
IsOk(r) == r[1] = "Ok"
IsErr(r) == r[1] = "Err"

Some(x) == <<"Some", x>>
None == <<"None">>

-----------------------------------------------------------------------------
(* Characters *)

DigitChars == <<"0", "1", "2", "3", "4", "5", "6", "7", "8", "9">>

IsAsciiDigit(c) == \E i \in 1..10 : DigitChars[i] = c
DigitValue(c) == (CHOOSE i \in 1..10 : DigitChars[i] = c) - 1

\* Characters for which char::is_numeric holds although they are no ASCII
\* digit (Unicode categories Nd, Nl, No); "sup2" stands for U+00B2.
NonAsciiNumeric == {"sup2"}

IsNumeric(c) == IsAsciiDigit(c) \/ c \in NonAsciiNumeric
IsWhitespace(c) == c \in {" ", "\t", "\n"}

-----------------------------------------------------------------------------
(* Lexer *)

RECURSIVE DecimalValue(_)
DecimalValue(ds) ==
    IF ds = <<>> THEN 0
    ELSE 10 * DecimalValue(SubSeq(ds, 1, Len(ds) - 1)) + DigitValue(ds[Len(ds)])

RECURSIVE Pow10(_)
Pow10(k) == IF k = 0 THEN 1 ELSE 10 * Pow10(k - 1)

\* num.parse::<f64>() on a run of numeric characters and '.': a decimal
\* literal needs ASCII digits only, at most one '.', and at least one digit.
ParseF64(num) ==
    LET dots == {i \in 1..Len(num) : num[i] = "."}
        digs == {i \in 1..Len(num) : IsAsciiDigit(num[i])}
    IN  IF /\ dots \cup digs = 1..Len(num)
           /\ Cardinality(dots) <= 1
           /\ digs # {}
        THEN LET dot  == IF dots = {} THEN Len(num) + 1 ELSE CHOOSE i \in dots : TRUE
                 int  == SubSeq(num, 1, dot - 1)
                 frac == SubSeq(num, dot + 1, Len(num))
             IN  Ok(Fin(0, DecimalValue(int) * Pow10(Len(frac)) + DecimalValue(frac),
                        Pow10(Len(frac))))
        ELSE Err(<<"ParseFloatError">>)

\* The loop `iter.next_if(|c| c.is_whitespace())` of get_token: the position
\* of the first character at or after p that is no whitespace.
RECURSIVE SkipWhitespace(_, _)
SkipWhitespace(s, p) ==
    IF p <= Len(s) /\ IsWhitespace(s[p]) THEN SkipWhitespace(s, p + 1) ELSE p

\* The loop `iter.next_if(|c| c.is_numeric() || *c == '.')` of
\* get_first_number: the position just past the run that starts at p.
RECURSIVE NumberRunEnd(_, _)
NumberRunEnd(s, p) ==
    IF p <= Len(s) /\ (IsNumeric(s[p]) \/ s[p] = ".")
    THEN NumberRunEnd(s, p + 1) ELSE p

\* get_first_number giving Ok(None) for a run that does not parse, the run
\* left in the iterator.
get_first_number_fallthrough(s, p) ==
    LET q   == NumberRunEnd(s, p)
        num == SubSeq(s, p, q - 1)
    IN  IF Len(num) # 0 /\ IsOk(ParseF64(num))
        THEN [pos |-> q, res |-> Ok(Some(ParseF64(num)[2]))]
        ELSE [pos |-> p, res |-> Ok(None)]

get_first_number(s, p) ==
    LET q   == NumberRunEnd(s, p)
        num == SubSeq(s, p, q - 1)
    IN  [pos |-> q,
         res |-> IF Len(num) = 0 THEN Ok(None)
                 ELSE IF IsOk(ParseF64(num)) THEN Ok(Some(ParseF64(num)[2]))
                 ELSE Err(InvalidNumber(num))]

\* Classify with the unrecognized character kept as a token.
ClassifyInvalidToken(c) ==
    CASE c = "(" -> Ok(Some(LeftBracket))
      [] c = ")" -> Ok(Some(RightBracket))
      [] c = "+" -> Ok(Some(Add))
      [] c = "-" -> Ok(Some(Sub))
      [] c = "*" -> Ok(Some(Mul))
      [] c = "/" -> Ok(Some(Div))
      [] OTHER   -> Ok(Some(<<"Invalid", c>>))

\* The match on one character of get_token.
Classify(c) ==
    CASE c = "(" -> Ok(Some(LeftBracket))
      [] c = ")" -> Ok(Some(RightBracket))
      [] c = "+" -> Ok(Some(Add))
      [] c = "-" -> Ok(Some(Sub))
      [] c = "*" -> Ok(Some(Mul))
      [] c = "/" -> Ok(Some(Div))
      [] OTHER   -> Err(InvalidCharacter(c))

get_token(s, p) ==
    LET p1 == SkipWhitespace(s, p)
        fn == get_first_number(s, p1)
    IN  IF IsErr(fn.res) THEN fn
        ELSE IF fn.res[2] # None THEN [pos |-> fn.pos, res |-> Ok(Some(Number(fn.res[2][2])))]
        ELSE IF fn.pos > Len(s) THEN [pos |-> fn.pos, res |-> Ok(None)]
        ELSE [pos |-> fn.pos + 1, res |-> Classify(s[fn.pos])]

Frame(fn, pc) == [fn |-> fn, pc |-> pc, value |-> Fin(0, 0, 1), op |-> None]

\* tokenize: an iteration of the loop whose get_token yields Some(t).
TokenizePush ==
    /\ phase = "tokenize"
    /\ LET r == get_token(line, pos)
       IN  /\ IsOk(r.res)
           /\ r.res[2] # None
           /\ tokens' = Append(tokens, r.res[2][2])
           /\ pos' = r.pos
    /\ UNCHANGED <<line, phase, perr, cursor, stack, ret, result>>

\* tokenize: the iteration whose get_token yields None; tokenize returns
\* Ok(tokens) and main calls evaluate(tokens).
TokenizeBreak ==
    /\ phase = "tokenize"
    /\ LET r == get_token(line, pos)
       IN  /\ r.res = Ok(None)
           /\ pos' = r.pos
    /\ phase' = "evaluate"
    /\ stack' = <<Frame("evaluate", "entry")>>
    /\ cursor' = 1
    /\ UNCHANGED <<line, tokens, perr, ret, result>>

\* tokenize: the iteration whose get_token fails; `?` returns the error and
\* main prints it and continues with the next line.
TokenizeFail ==
    /\ phase = "tokenize"
    /\ LET r == get_token(line, pos)
       IN  /\ IsErr(r.res)
           /\ perr' = r.res
           /\ pos' = r.pos
    /\ phase' = "done"
    /\ UNCHANGED <<line, tokens, cursor, stack, ret, result>>

-----------------------------------------------------------------------------
(* Evaluator *)

Top == stack[Len(stack)]
Callers == SubSeq(stack, 1, Len(stack) - 1)

\* tokens.peek(): the token under the cursor, None at the end.
Peek == IF cursor <= Len(tokens) THEN Some(tokens[cursor]) ELSE None

\* A call: the caller moves to pc `after` (keeping what it holds in `value`
\* and `op`) and the callee's frame is pushed.
Call(after, value, op, callee) ==
    /\ stack' = Append(Callers,
                       [fn |-> Top.fn, pc |-> after, value |-> value, op |-> op])
                \o <<Frame(callee, "entry")>>
    /\ ret' = NoResult

\* A return: the frame is popped and the caller finds r in `ret`.
Return(r) ==
    /\ stack' = Callers
    /\ ret' = r

\* IsTermOp also taking the additive operators.
IsTermOpLoose(t) == t = Mul \/ t = Div \/ t = Add \/ t = Sub

\* IsExpressionOp taking every token, as `next()` in place of `next_if`.
IsExpressionOpAny(t) == TRUE

\* The closures given to next_if in evaluate_term and evaluate_expression.
IsTermOp(t) == t = Mul \/ t = Div
IsExpressionOp(t) == t = Add \/ t = Sub

\* The matches on the operator token of evaluate_term and
\* evaluate_expression, with the right operand r already evaluated.
TermCombine(op, l, r) ==
    CASE op = Mul -> Ok(FMul(l, r))
      [] op = Div -> Ok(FDiv(l, r))
      [] OTHER    -> Err(UnexpectedToken(op))

ExpressionCombine(op, l, r) ==
    CASE op = Add -> Ok(FAdd(l, r))
      [] op = Sub -> Ok(FSub(l, r))
      [] OTHER    -> Err(UnexpectedToken(op))

\* FactorFirst reporting the wrong error for a token that starts no factor.
FactorFirstWrongError(token) ==
    CASE token[1] = "Number" -> <<"Return", Ok(token[2])>>
      [] token = LeftBracket -> <<"Call", "expression">>
      [] OTHER               -> <<"Return", Err(UnexpectedEnding)>>

\* FactorAtEnd taking a missing operand for zero.
FactorAtEndZero == Ok(Fin(0, 0, 1))

\* FactorAfter closing the bracket on whatever follows.
FactorAfterLenient(value, next) == Ok(value)

\* EvaluateFinish not looking at what follows the expression.
EvaluateFinishLenient(val, next) == Ok(val)

\* ExpressionOperand for the left-recursive rule expression = expression + term.
ExpressionOperandLeftRecursive == "expression"

\* evaluate_factor's match on the token `tokens.next()` gave: what the
\* function does next.
FactorFirst(token) ==
    CASE token[1] = "Number" -> <<"Return", Ok(token[2])>>
      [] token = LeftBracket -> <<"Call", "expression">>
      [] OTHER               -> <<"Return", Err(UnexpectedToken(token))>>

\* evaluate_factor's result when `tokens.next()` gave None.
FactorAtEnd == Err(UnexpectedEnding)

\* evaluate_factor's match on `tokens.next()` after the bracketed
\* expression evaluated to value.
FactorAfter(value, next) ==
    IF next = None THEN Err(UnexpectedEnding)
    ELSE IF next[2] = RightBracket THEN Ok(value)
    ELSE Err(UnexpectedToken(next[2]))

\* evaluate's match on `tokens.next()` after the expression evaluated to val.
EvaluateFinish(val, next) ==
    IF next = None THEN Ok(val) ELSE Err(UnexpectedToken(next[2]))

\* The rule evaluate_expression calls for its first operand.
ExpressionOperand == "term"

\* evaluate_factor, from its entry to its return or its call of
\* evaluate_expression: `tokens.next()` and the match on the token.
FactorNext ==
    /\ phase = "evaluate"
    /\ Top.fn = "factor" /\ Top.pc = "entry"
    /\ IF Peek = None
       THEN /\ Return(FactorAtEnd)
            /\ UNCHANGED cursor
       ELSE /\ cursor' = cursor + 1
            /\ LET m == FactorFirst(tokens[cursor])
               IN  IF m[1] = "Call"
                   THEN Call("close", Top.value, Top.op, m[2])
                   ELSE Return(m[2])
    /\ UNCHANGED <<line, pos, tokens, phase, perr, result>>

\* evaluate_factor after evaluate_expression returned: `?`, then
\* `tokens.next()` must be the RightBracket.
FactorClose ==
    /\ phase = "evaluate"
    /\ Top.fn = "factor" /\ Top.pc = "close"
    /\ IF IsErr(ret)
       THEN /\ Return(ret)
            /\ UNCHANGED cursor
       ELSE /\ Return(FactorAfter(ret[2], Peek))
            /\ cursor' = IF Peek = None THEN cursor ELSE cursor + 1
    /\ UNCHANGED <<line, pos, tokens, phase, perr, result>>

\* evaluate_term: the call of evaluate_factor.
TermEnter ==
    /\ phase = "evaluate"
    /\ Top.fn = "term" /\ Top.pc = "entry"
    /\ Call("continue", Top.value, Top.op, "factor")
    /\ UNCHANGED <<line, pos, tokens, phase, perr, cursor, result>>

\* evaluate_term after evaluate_factor returned: `?`, then next_if on
\* Mul | Div; a match consumes the operator and calls evaluate_term.
TermContinue ==
    /\ phase = "evaluate"
    /\ Top.fn = "term" /\ Top.pc = "continue"
    /\ IF IsErr(ret)
       THEN /\ Return(ret)
            /\ UNCHANGED cursor
       ELSE IF Peek # None /\ IsTermOp(tokens[cursor])
       THEN /\ cursor' = cursor + 1
            /\ IF tokens[cursor] = Mul \/ tokens[cursor] = Div
               THEN Call("combine", ret[2], tokens[cursor], "term")
               ELSE Return(Err(UnexpectedToken(tokens[cursor])))
       ELSE /\ Return(Ok(ret[2]))
            /\ UNCHANGED cursor
    /\ UNCHANGED <<line, pos, tokens, phase, perr, result>>

\* evaluate_term after the recursive evaluate_term returned: `?`, then
\* value * right or value / right.
TermReturn ==
    /\ phase = "evaluate"
    /\ Top.fn = "term" /\ Top.pc = "combine"
    /\ IF IsErr(ret)
       THEN Return(ret)
       ELSE Return(TermCombine(Top.op, Top.value, ret[2]))
    /\ UNCHANGED <<line, pos, tokens, phase, perr, cursor, result>>

\* evaluate_expression: the call of evaluate_term.
ExpressionEnter ==
    /\ phase = "evaluate"
    /\ Top.fn = "expression" /\ Top.pc = "entry"
    /\ Call("continue", Top.value, Top.op, ExpressionOperand)
    /\ UNCHANGED <<line, pos, tokens, phase, perr, cursor, result>>

\* evaluate_expression after evaluate_term returned: `?`, then next_if on
\* Add | Sub; a match consumes the operator and calls evaluate_expression.
ExpressionContinue ==
    /\ phase = "evaluate"
    /\ Top.fn = "expression" /\ Top.pc = "continue"
    /\ IF IsErr(ret)
       THEN /\ Return(ret)
            /\ UNCHANGED cursor
       ELSE IF Peek # None /\ IsExpressionOp(tokens[cursor])
       THEN /\ cursor' = cursor + 1
            /\ IF tokens[cursor] = Add \/ tokens[cursor] = Sub
               THEN Call("combine", ret[2], tokens[cursor], "expression")
               ELSE Return(Err(UnexpectedToken(tokens[cursor])))
       ELSE /\ Return(Ok(ret[2]))
            /\ UNCHANGED cursor
    /\ UNCHANGED <<line, pos, tokens, phase, perr, result>>

\* evaluate_expression after the recursive evaluate_expression returned:
\* `?`, then value + right or value - right.
ExpressionReturn ==
    /\ phase = "evaluate"
    /\ Top.fn = "expression" /\ Top.pc = "combine"
    /\ IF IsErr(ret)
       THEN Return(ret)
       ELSE Return(ExpressionCombine(Top.op, Top.value, ret[2]))
    /\ UNCHANGED <<line, pos, tokens, phase, perr, cursor, result>>

\* evaluate: the iterator is created and evaluate_expression is called.
EvaluateEnter ==
    /\ phase = "evaluate"
    /\ Top.fn = "evaluate" /\ Top.pc = "entry"
    /\ Call("finish", Top.value, Top.op, "expression")
    /\ UNCHANGED <<line, pos, tokens, phase, perr, cursor, result>>

\* evaluate after evaluate_expression returned: `?`, then `tokens.next()`
\* must be None; main receives the Result.
EvaluateReturn ==
    /\ phase = "evaluate"
    /\ Top.fn = "evaluate" /\ Top.pc = "finish"
    /\ IF IsErr(ret)
       THEN /\ result' = ret
            /\ UNCHANGED cursor
       ELSE /\ result' = EvaluateFinish(ret[2], Peek)
            /\ cursor' = IF Peek = None THEN cursor ELSE cursor + 1
    /\ stack' = Callers
    /\ phase' = "done"
    /\ UNCHANGED <<line, pos, tokens, perr, ret>>

-----------------------------------------------------------------------------
(* Input lines *)

Digits == {DigitChars[i + 1] : i \in 0..MaxDigit}
Operators == {"+", "-", "*", "/"}
Alphabet == Digits \cup Operators \cup {"(", ")", ".", " ", "#"} \cup NonAsciiNumeric

\* Every line of at most MaxLen characters.
ShortLines == UNION {[1..n -> Alphabet] : n \in 0..MaxLen}

\* Expressions of three operands and two binary operators, bare and with
\* either pair bracketed.
ThreeOperandLines ==
    UNION {{<<a, o1, b, o2, c>>,
            <<"(", a, o1, b, ")", o2, c>>,
            <<a, o1, "(", b, o2, c, ")">>} :
           <<a, b, c, o1, o2>> \in Digits \X Digits \X Digits \X Operators \X Operators}

\* The lines of the specification's examples.
ExampleLines ==
    {<<"1", "0", "-", "3", "-", "2">>,
     <<"1", "0", "0", "/", "5", "/", "2">>,
     <<"2", "+", "3", "*", "4">>,
     <<"(", "2", "+", "3", ")", "*", "4">>,
     <<"-", "-", "5">>,
     <<"-", "5", "+", "3">>,
     <<"1", "/", "0">>,
     <<"2", "+">>,
     <<"2", "#", "3">>,
     <<"2", "+", "3", ")">>,
     <<" ", " ", "2", " ", " ", "+", " ", " ", "3", " ", " ">>,
     <<"1", ".", "2", ".", "3">>}

Lines == ShortLines \cup ThreeOperandLines \cup ExampleLines

-----------------------------------------------------------------------------

\* main after read_line, about to call tokenize(input).
Init ==
    /\ line \in Lines
    /\ pos = 1
    /\ tokens = <<>>
    /\ phase = "tokenize"
    /\ perr = NoError
    /\ cursor = 1
    /\ stack = <<>>
    /\ ret = NoResult
    /\ result = NoResult

Next ==
    \/ TokenizePush
    \/ TokenizeBreak
    \/ TokenizeFail
    \/ EvaluateEnter
    \/ EvaluateReturn
    \/ ExpressionEnter
    \/ ExpressionContinue
    \/ ExpressionReturn
    \/ TermEnter
    \/ TermContinue
    \/ TermReturn
    \/ FactorNext
    \/ FactorClose

Spec == Init /\ [][Next]_vars

-----------------------------------------------------------------------------
(* Properties *)

Done == phase = "done"
\* tokenize returned Ok and evaluate has returned.
Evaluated == phase = "done" /\ perr = NoError
Evaluating == phase = "evaluate"

IsNumberToken(t) == t[1] = "Number"
ResultIsOk(v) == IsOk(result) /\ result[2] = v
ResultIsErr(e) == IsErr(result) /\ result[2] = e
At(fn, pc) == Evaluating /\ Top.fn = fn /\ Top.pc = pc

\* The arithmetic a binary operator token stands for.
Apply(op, x, y) ==
    CASE op = Add -> FAdd(x, y)
      [] op = Sub -> FSub(x, y)
      [] op = Mul -> FMul(x, y)
      [] op = Div -> FDiv(x, y)

\* tokens is  a op1 b op2 c  for numbers a, b, c.
IsThreeOperands == 
    /\ Len(tokens) = 5
    /\ IsNumberToken(tokens[1]) /\ IsNumberToken(tokens[3]) /\ IsNumberToken(tokens[5])

\* An error handed back by a call is handed on unchanged by every caller,
\* up to evaluate's own result.
ErrorPropagates ==
    (Evaluating /\ IsErr(ret)) =>
        /\ ret' = ret
        /\ cursor' = cursor
        /\ stack' = Callers
        /\ phase' = "done" => result' = ret

\* C1: binary operators of equal precedence fold left to right: the tokens
\* of a - b - c evaluate to Ok((a - b) - c) and those of a / b / c to
\* Ok((a / b) / c).
C1_LeftAssociative ==
    (Evaluated /\ IsThreeOperands /\ tokens[2] = tokens[4]
               /\ tokens[2] \in {Sub, Div}) =>
        ResultIsOk(Apply(tokens[4],
                         Apply(tokens[2], tokens[1][2], tokens[3][2]),
                         tokens[5][2]))

\* C2 as claimed: a '+' or '-' at the start of a factor is a unary sign
\* applied to the factor that follows, so - - a evaluates to Ok(a), - a + b
\* to Ok(-a + b), and no sign in front of a number is an error.
C2_UnarySignAccepted ==
    Evaluated =>
        /\ (Len(tokens) = 3 /\ tokens[1] = Sub /\ tokens[2] = Sub
                /\ IsNumberToken(tokens[3])) => ResultIsOk(tokens[3][2])
        /\ (Len(tokens) = 4 /\ tokens[1] = Sub /\ IsNumberToken(tokens[2])
                /\ tokens[3] = Add /\ IsNumberToken(tokens[4])) =>
               ResultIsOk(FAdd(FNeg(tokens[2][2]), tokens[4][2]))
        /\ (Len(tokens) = 2 /\ tokens[1] \in {Add, Sub}
                /\ IsNumberToken(tokens[2])) => IsOk(result)

\* C2 amended: a '+' or '-' token where a factor is expected is no unary
\* sign: evaluate_factor consumes it and returns UnexpectedToken carrying
\* it, every caller hands that error on, and a token sequence that starts
\* with a sign evaluates to UnexpectedToken of that sign.
C2_SignRejected ==
    /\ [][(At("factor", "entry") /\ Peek \in {Some(Add), Some(Sub)}) =>
              /\ ret' = Err(UnexpectedToken(tokens[cursor]))
              /\ cursor' = cursor + 1
              /\ stack' = Callers]_vars
    /\ [][ErrorPropagates]_vars
    /\ []((Evaluated /\ tokens # <<>> /\ tokens[1] \in {Add, Sub}) =>
              ResultIsErr(UnexpectedToken(tokens[1])))

C2_Witness ==
    /\ Evaluated
    /\ line = <<"-", "-", "5">>
    /\ tokens = <<Sub, Sub, Number(FromInt(5))>>
    /\ ResultIsErr(UnexpectedToken(Sub))

\* A character the lexer has no token class for, as C3 lists them.
Unrecognized(c) ==
    /\ ~IsWhitespace(c)
    /\ ~IsAsciiDigit(c)
    /\ c \notin {".", "(", ")", "+", "-", "*", "/"}

HasUnrecognized == \E i \in 1..Len(line) : Unrecognized(line[i])
FirstUnrecognized ==
    CHOOSE i \in 1..Len(line) :
        Unrecognized(line[i]) /\ \A j \in 1..(i - 1) : ~Unrecognized(line[j])

\* C3 as claimed: lexing never fails on an unrecognized character c:
\* tokenize returns a token sequence holding Invalid(c) and evaluate
\* returns UnexpectedToken(Invalid(c)).
C3_LexingNeverFails ==
    (Done /\ HasUnrecognized) =>
        /\ perr = NoError
        /\ \E i \in 1..Len(tokens) :
               /\ tokens[i] = <<"Invalid", line[FirstUnrecognized]>>
               /\ ResultIsErr(UnexpectedToken(tokens[i]))

\* C3 amended: lexing fails on an unrecognized character: tokenize returns
\* Err, no token sequence reaches evaluate, and evaluate is never called.
\* With c the first unrecognized character, the error is
\* InvalidCharacter(c) when c is not numeric, unless a run of digits and
\* '.' before c did not parse and gave InvalidNumber of that run; when c
\* is a numeric character that is no ASCII digit, the error is
\* InvalidNumber of the run holding c or of a run before it.
C3_LexingFails ==
    (Done /\ HasUnrecognized) =>
        LET i == FirstUnrecognized
        IN  /\ IsErr(perr)
            /\ result = NoResult /\ ret = NoResult /\ stack = <<>>
            /\ \/ /\ ~IsNumeric(line[i])
                  /\ perr[2] = InvalidCharacter(line[i])
                  /\ pos = i + 1
               \/ \E p \in 1..Len(line) : \E q \in p..Len(line) :
                      /\ perr[2] = InvalidNumber(SubSeq(line, p, q))
                      /\ IsErr(ParseF64(SubSeq(line, p, q)))
                      /\ q < i \/ (IsNumeric(line[i]) /\ p <= i /\ i <= q)

C3_Witness ==
    /\ Done
    /\ line = <<"2", "#", "3">>
    /\ tokens = <<Number(FromInt(2))>>
    /\ perr = Err(InvalidCharacter("#"))

\* C4: * and / bind tighter than + and -, and brackets override: the
\* tokens of  a + b * c  evaluate to Ok(a + (b * c)), those of  a * b + c
\* to Ok((a * b) + c), and those of  (a + b) * c  to Ok((a + b) * c), for
\* either additive operator in place of + and either multiplicative
\* operator in place of *.
C4_Precedence ==
    Evaluated =>
        /\ (IsThreeOperands /\ tokens[2] \in {Add, Sub} /\ tokens[4] \in {Mul, Div}) =>
               ResultIsOk(Apply(tokens[2], tokens[1][2],
                                Apply(tokens[4], tokens[3][2], tokens[5][2])))
        /\ (IsThreeOperands /\ tokens[2] \in {Mul, Div} /\ tokens[4] \in {Add, Sub}) =>
               ResultIsOk(Apply(tokens[4],
                                Apply(tokens[2], tokens[1][2], tokens[3][2]),
                                tokens[5][2]))
        /\ (/\ Len(tokens) = 7
            /\ tokens[1] = LeftBracket /\ IsNumberToken(tokens[2])
            /\ tokens[3] \in {Add, Sub} /\ IsNumberToken(tokens[4])
            /\ tokens[5] = RightBracket /\ tokens[6] \in {Mul, Div}
            /\ IsNumberToken(tokens[7])) =>
               ResultIsOk(Apply(tokens[6],
                                Apply(tokens[3], tokens[2][2], tokens[4][2]),
                                tokens[7][2]))
        /\ line = <<"2", "+", "3", "*", "4">> => ResultIsOk(FromInt(14))
        /\ line = <<"(", "2", "+", "3", ")", "*", "4">> => ResultIsOk(FromInt(20))

C4_Witness ==
    /\ Evaluated
    /\ line = <<"(", "2", "+", "3", ")", "*", "4">>
    /\ ResultIsOk(FromInt(20))

\* C5: when the token stream is exhausted where a factor is expected,
\* evaluate returns UnexpectedEnding and no number: evaluate_factor returns
\* it without consuming anything and every caller hands it on; so do the
\* empty sequence, a number followed by a binary operator, and a lone '(';
\* no sequence that ends in a binary operator or in '(' evaluates to Ok.
C5_UnexpectedEnd ==
    /\ [][(At("factor", "entry") /\ Peek = None) =>
              /\ ret' = Err(UnexpectedEnding)
              /\ cursor' = cursor
              /\ stack' = Callers]_vars
    /\ [][ErrorPropagates]_vars
    /\ [](Evaluated =>
              /\ tokens = <<>> => ResultIsErr(UnexpectedEnding)
              /\ tokens = <<LeftBracket>> => ResultIsErr(UnexpectedEnding)
              /\ (Len(tokens) = 2 /\ IsNumberToken(tokens[1])
                      /\ tokens[2] \in {Add, Sub, Mul, Div}) =>
                     ResultIsErr(UnexpectedEnding)
              /\ (tokens # <<>> /\ tokens[Len(tokens)] \in {Add, Sub, Mul, Div, LeftBracket}) =>
                     IsErr(result)
              /\ ResultIsErr(UnexpectedEnding) => cursor = Len(tokens) + 1)

C5_Witness ==
    /\ Evaluated
    /\ line = <<"2", "+">>
    /\ cursor = 3
    /\ ResultIsErr(UnexpectedEnding)

\* C6: if tokens remain after the top-level expression evaluated, evaluate
\* returns UnexpectedToken of the first remaining token and never Ok;
\* evaluate returns Ok only when every token was consumed.
C6_TrailingTokens ==
    /\ [][(At("evaluate", "finish") /\ IsOk(ret) /\ Peek # None) =>
              /\ result' = Err(UnexpectedToken(tokens[cursor]))
              /\ phase' = "done"]_vars
    /\ []((Evaluated /\ IsOk(result)) => cursor = Len(tokens) + 1)
    /\ []((Evaluated /\ Len(tokens) = 4 /\ IsNumberToken(tokens[1])
               /\ tokens[2] = Add /\ IsNumberToken(tokens[3])
               /\ tokens[4] = RightBracket) =>
              ResultIsErr(UnexpectedToken(RightBracket)))

C6_Witness ==
    /\ Evaluated
    /\ line = <<"2", "+", "3", ")">>
    /\ ResultIsErr(UnexpectedToken(RightBracket))

\* C7: after '(' was consumed and the inner expression evaluated, the next
\* token must be ')': at the end of the stream evaluate_factor returns
\* UnexpectedEnding, on another token UnexpectedToken of exactly that
\* token, and only on ')' it consumes it and returns the inner value; the
\* errors reach evaluate's result unchanged.
C7_ClosingBracket ==
    /\ [][(At("factor", "close") /\ IsOk(ret)) =>
              /\ stack' = Callers
              /\ Peek = None =>
                     ret' = Err(UnexpectedEnding) /\ cursor' = cursor
              /\ Peek = Some(RightBracket) =>
                     ret' = Ok(ret[2]) /\ cursor' = cursor + 1
              /\ (Peek # None /\ Peek # Some(RightBracket)) =>
                     /\ ret' = Err(UnexpectedToken(tokens[cursor]))
                     /\ cursor' = cursor + 1]_vars
    /\ [][ErrorPropagates]_vars
    /\ []((Evaluated /\ Len(tokens) \in {2, 3} /\ tokens[1] = LeftBracket
               /\ IsNumberToken(tokens[2])) =>
              /\ Len(tokens) = 2 => ResultIsErr(UnexpectedEnding)
              /\ (Len(tokens) = 3 /\ tokens[3] = RightBracket) =>
                     ResultIsOk(tokens[2][2])
              /\ (Len(tokens) = 3 /\ (tokens[3] = LeftBracket \/ IsNumberToken(tokens[3]))) =>
                     ResultIsErr(UnexpectedToken(tokens[3])))

C7_Witness ==
    /\ Evaluated
    /\ line = <<"(", "1", "(">>
    /\ ResultIsErr(UnexpectedToken(LeftBracket))

\* The scan position of the next get_token call past its whitespace, and
\* the maximal run of numeric characters and '.' that starts there.
ScanStart ==
    CHOOSE p \in pos..(Len(line) + 1) :
        /\ \A j \in pos..(p - 1) : IsWhitespace(line[j])
        /\ p <= Len(line) => ~IsWhitespace(line[p])
ScanRunEnd ==
    CHOOSE q \in ScanStart..(Len(line) + 1) :
        /\ \A j \in ScanStart..(q - 1) : IsNumeric(line[j]) \/ line[j] = "."
        /\ q <= Len(line) => ~(IsNumeric(line[q]) \/ line[q] = ".")
ScanRun == SubSeq(line, ScanStart, ScanRunEnd - 1)

\* A run of numeric characters and '.' that is no decimal literal.
Malformed(run) ==
    /\ run # <<>>
    /\ \/ Cardinality({i \in 1..Len(run) : run[i] = "."}) >= 2
       \/ \A i \in 1..Len(run) : ~IsAsciiDigit(run[i])
       \/ \E i \in 1..Len(run) : run[i] \in NonAsciiNumeric

\* C8: a malformed numeric literal is the distinct InvalidNumber error:
\* when the maximal run of numeric characters and '.' at the scan position
\* does not parse, tokenization stops with InvalidNumber carrying the
\* whole run, pushes no token for it and hands none of its characters to
\* the single-character classification; evaluate is not called.
C8_MalformedNumber ==
    /\ [][(phase = "tokenize" /\ Malformed(ScanRun)) =>
              /\ perr' = Err(InvalidNumber(ScanRun))
              /\ tokens' = tokens
              /\ pos' = ScanRunEnd
              /\ phase' = "done"]_vars
    /\ []((Done /\ IsErr(perr) /\ perr[2][1] = "InvalidNumber") =>
              /\ Malformed(perr[2][2])
              /\ result = NoResult /\ stack = <<>>)
    /\ []((Done /\ line \in {<<"1", ".", "2", ".", "3">>, <<".">>}) =>
              perr = Err(InvalidNumber(line)) /\ tokens = <<>>)

C8_Witness ==
    /\ Done
    /\ line = <<"1", ".", "2", ".", "3">>
    /\ tokens = <<>>
    /\ perr = Err(InvalidNumber(line))

\* C9: during evaluate the cursor only moves forward, one token at a time
\* and within the sequence, the tokens themselves never change, and a
\* continuation check that does not match (no * or / next in term, no + or
\* - next in expression) returns the accumulated value and leaves the
\* cursor where it is.
C9_CursorForward ==
    /\ [][Evaluating => (cursor' \in {cursor, cursor + 1} /\ tokens' = tokens)]_vars
    /\ [](cursor \in 1..(Len(tokens) + 1))
    /\ [][(At("term", "continue") /\ IsOk(ret)
               /\ Peek \notin {Some(Mul), Some(Div)}) =>
              (cursor' = cursor /\ ret' = ret /\ stack' = Callers)]_vars
    /\ [][(At("expression", "continue") /\ IsOk(ret)
               /\ Peek \notin {Some(Add), Some(Sub)}) =>
              (cursor' = cursor /\ ret' = ret /\ stack' = Callers)]_vars

C9_Witness ==
    /\ At("expression", "continue")
    /\ IsOk(ret)
    /\ cursor = 3
    /\ Peek = Some(RightBracket)
    /\ Len(stack) > 2

\* What is left to do in a frame, by where it stands.
Weight(f) ==
    CASE f.pc = "entry" /\ f.fn = "evaluate"   -> 7
      [] f.pc = "entry" /\ f.fn = "expression" -> 5
      [] f.pc = "entry" /\ f.fn = "term"       -> 3
      [] OTHER                                 -> 1

RECURSIVE StackWeight(_)
StackWeight(st) ==
    IF st = <<>> THEN 0
    ELSE Weight(st[Len(st)]) + StackWeight(SubSeq(st, 1, Len(st) - 1))

\* Bounded by 6 * Len(tokens) + 7 when evaluate is called.
Rank == StackWeight(stack) + 6 * (Len(tokens) + 1 - cursor)

Frames(fn) == {i \in 1..Len(stack) : stack[i].fn = fn}

\* C10: evaluate terminates on every token sequence with a number or an
\* error: every step of the call chain lowers a rank that starts at
\* 6 * Len(tokens) + 7 and stays positive, a step is always possible until
\* evaluate returns, and no rule is nested in itself more often than
\* tokens were consumed (plus the outermost invocation), so the recursion
\* depth is at most 3 * Len(tokens) + 4.
C10_Terminates ==
    /\ [][Evaluating => Rank' < Rank]_vars
    /\ [](Evaluating =>
              /\ Rank > 0 /\ Rank <= 6 * Len(tokens) + 7
              /\ ENABLED Next
              /\ \A fn \in {"expression", "term", "factor"} :
                     Cardinality(Frames(fn)) <= cursor
              /\ Len(stack) <= 3 * cursor + 1)
    /\ [](Evaluated => (IsOk(result) \/ IsErr(result)))

C10_Witness ==
    /\ Evaluating
    /\ cursor = 3
    /\ Cardinality(Frames("expression")) = 3
    /\ Len(stack) = 10

=============================================================================
